---- MODULE Spec2Model ----
(***************************************************************************)
(* The streaming worker (src/streaming-worker.js): one Node.js process     *)
(* that spawns FFmpeg relay processes, keeps them in the activeStreams     *)
(* Map, and writes their status to PostgreSQL through ONE pg.Client.       *)
(*                                                                         *)
(* Node runs one callback at a time; an async function runs without        *)
(* interruption up to its next await.  Every await of the worker is an     *)
(* await of pgClient.query, and one pg.Client answers its queries in the   *)
(* order they were issued.  So a suspended function is exactly one entry   *)
(* of pgQueue (the query it waits for plus what it does on the answer),    *)
(* and an action is: an event arrives and its handler runs to the next     *)
(* await (SubStart, SubStop, CronTick, ProcExit, Sigterm), or the oldest   *)
(* query is answered and its function continues to the next await          *)
(* (PgReply).  SpecShutdown adds the SIGTERM handler, SpecFaults a store    *)
(* that may reject a query (PgReject), and SpecBuilder runs                *)
(* createFFmpegCommand on its own over every short platform list.          *)
(***************************************************************************)
EXTENDS Integers, Sequences, FiniteSets, TLC

\* ---------------------------------------------------------------- bounds
MaxProcs == 2          \* relay processes spawned in one behaviour
MaxInFlight == 2       \* functions suspended at an await at one time
MaxLen == 3            \* platforms in a list handed to createFFmpegCommand
MaxCalls == 2          \* calls of createFFmpegCommand on one input

Jobs == {"a", "b"}     \* stream ids

\* ------------------------------------------------------------- platforms
\* A platform row: its type and its destination ("" = no url / server).
Rtmp == [type |-> "rtmp", dest |-> "live"]
Custom == [type |-> "custom", dest |-> "cdn"]
CustomNoUrl == [type |-> "custom", dest |-> ""]
Hls == [type |-> "hls", dest |-> "x"]

\* The platform lists a start request or a row of the tick's query carries.
PlatformLists == { <<Rtmp, Custom>>, <<Hls>> }

\* path.join(uploadDir, stream.video_path)
VideoPath(id) == "uploads/" \o id

\* platforms.map(...) of createFFmpegCommand: the output URL of one platform,
\* or "" for null / a missing url (both are dropped by filter(Boolean)).
OutputOf(platform) ==
  IF platform.type = "rtmp" THEN "rtmp://" \o platform.dest
  ELSE IF platform.type = "custom" THEN platform.dest
  ELSE ""

Outputs(platforms) ==
  LET mapped == [i \in 1..Len(platforms) |-> OutputOf(platforms[i])]
      Truthy(o) == o # ""
  IN  SelectSeq(mapped, Truthy)

\* createFFmpegCommand without the filter(Boolean) of line 59.
createFFmpegCommandUnfiltered(videoPath, platforms) ==
  LET outputs == [i \in 1..Len(platforms) |-> OutputOf(platforms[i])]
  IN  IF Len(outputs) = 1
        THEN [threw |-> FALSE, input |-> videoPath, format |-> "flv", legs |-> outputs]
      ELSE IF Len(outputs) > 1
        THEN [threw |-> FALSE, input |-> videoPath, format |-> "tee", legs |-> outputs]
      ELSE [threw |-> TRUE, input |-> videoPath, format |-> "", legs |-> <<>>]

\* createFFmpegCommand: the invocation, or the thrown Error.
createFFmpegCommand(videoPath, platforms) ==
  LET outputs == Outputs(platforms)
  IN  IF Len(outputs) = 1
        THEN [threw |-> FALSE, input |-> videoPath, format |-> "flv", legs |-> outputs]
      ELSE IF Len(outputs) > 1
        THEN [threw |-> FALSE, input |-> videoPath, format |-> "tee", legs |-> outputs]
      ELSE [threw |-> TRUE, input |-> videoPath, format |-> "", legs |-> <<>>]

\* Texts are sequences of their parts, so that a text can be asked whether
\* it names a path.
NoValidOutputs == <<"No valid output platforms provided">>
SpawnError == <<"spawn failed">>
FileNotFound == <<"Video file not found">>
NoText == <<>>
DbError == <<"query failed">>

\* ----------------------------------------------------------------- state
VARIABLES
  activeStreams,  \* the Map, in insertion order: <<[key, process], ...>>
  procs,          \* every process spawned so far; its index is its handle
  status,         \* streams.status of every job, the column the SELECT reads
  pgQueue,        \* queries issued and not yet answered, oldest first
  updated,        \* the UPDATE applied by the latest step, with every column
                  \* it sets (NoUpdate when the step applied none)
  returned,       \* what startStream / stopStream returned in the latest step
  signalled,      \* the handle the latest step called kill('SIGTERM') on, or 0
  files,          \* jobs whose video file exists under uploadDir
  due,            \* jobs with scheduled_at <= now and plan_active
  shutdown,       \* position of the SIGTERM handler
  iter,           \* entries of activeStreams the SIGTERM loop has passed
  drain,          \* the jobs that had a session when SIGTERM arrived
  event,          \* the event the latest step handled
  build           \* createFFmpegCommand called on its own: the arguments,
                  \* what the latest call gave, and the calls made

vars == <<activeStreams, procs, status, pgQueue, updated, returned, signalled,
          files, due, shutdown, iter, drain, event, build>>

NoUpdate == [id |-> "", status |-> "", error |-> NoText, log_file |-> NoText,
             started_at |-> FALSE, ended_at |-> FALSE]
NoReturn == [fn |-> "", id |-> "", val |-> "", to |-> ""]

\* The state a handler starts from, as one record, so that the steps it takes
\* in a row can be composed.  What the previous step put out is cleared.
Cur == [activeStreams |-> activeStreams, procs |-> procs, status |-> status,
        pgQueue |-> pgQueue, updated |-> NoUpdate, returned |-> NoReturn,
        signalled |-> 0, shutdown |-> shutdown, iter |-> iter, drain |-> drain]

\* No call of createFFmpegCommand on its own.
NoCommand == [threw |-> FALSE, input |-> "", format |-> "", legs |-> <<>>]
NoBuild == [videoPath |-> "", platforms |-> <<>>, command |-> NoCommand, calls |-> 0]

Event(h, id, platforms, throws) ==
  [h |-> h, id |-> id, platforms |-> platforms, throws |-> throws]

Commit(M, e) ==
  /\ event' = e
  /\ activeStreams' = M.activeStreams
  /\ procs' = M.procs
  /\ status' = M.status
  /\ pgQueue' = M.pgQueue
  /\ updated' = M.updated
  /\ returned' = M.returned
  /\ signalled' = M.signalled
  /\ shutdown' = M.shutdown
  /\ iter' = M.iter
  /\ drain' = M.drain
  /\ UNCHANGED <<files, due, build>>

\* ------------------------------------------------------------ Map helpers
MapIndex(m, k) ==
  IF \E i \in 1..Len(m) : m[i].key = k
    THEN CHOOSE i \in 1..Len(m) : m[i].key = k
    ELSE 0

MapHas(m, k) == MapIndex(m, k) # 0

MapGet(m, k) == m[MapIndex(m, k)].process

\* Map.set: a present key keeps its place and takes the new value.
MapSet(m, k, p) ==
  IF MapHas(m, k)
    THEN [m EXCEPT ![MapIndex(m, k)].process = p]
    ELSE Append(m, [key |-> k, process |-> p])

MapDelete(m, k) ==
  LET Keep(e) == e.key # k IN SelectSeq(m, Keep)

\* activeStreams.clear() in the place of activeStreams.delete(streamId).
DeleteStreamClears(M, id) == [M EXCEPT !.activeStreams = <<>>, !.iter = 0]

\* activeStreams.delete(streamId), as the live iterator of the SIGTERM loop
\* sees it: an entry removed behind the cursor moves the cursor back.
DeleteStream(M, id) ==
  LET i == MapIndex(M.activeStreams, id)
  IN  [M EXCEPT !.activeStreams = MapDelete(@, id),
                !.iter = IF i # 0 /\ i <= @ THEN @ - 1 ELSE @]

\* ------------------------------------------------------------ the queries
\* pgClient is open until the SIGTERM handler calls pgClient.end(); a query
\* issued on a closed client rejects.
PgOpen(M) == M.shutdown \in {"running", "draining"}

Query(kind, id, process, arg, caller, rest) ==
  [kind |-> kind, id |-> id, process |-> process, arg |-> arg,
   caller |-> caller, rest |-> rest]

Issue(M, q) == [M EXCEPT !.pgQueue = Append(@, q)]

Return(M, fn, id, val, caller) ==
  [M EXCEPT !.returned = [fn |-> fn, id |-> id, val |-> val, to |-> caller]]

\* process.kill('SIGTERM') on handle p
Kill(M, p) == [M EXCEPT !.procs[p].killed = TRUE, !.signalled = p]

\* generateLogFilename: stream-<id>-<timestamp>.log under logDir
generateLogFilename(streamId) == <<"logs", streamId>>

\* The UPDATE statements, each with the columns it sets.
UpdateActive(M, id, logFilename) ==
  [M EXCEPT !.status[id] = "active",
            !.updated = [NoUpdate EXCEPT !.id = id, !.status = "active",
                           !.started_at = TRUE, !.log_file = logFilename]]

UpdateEnded(M, id, st) ==
  [M EXCEPT !.status[id] = st,
            !.updated = [NoUpdate EXCEPT !.id = id, !.status = st,
                           !.ended_at = TRUE]]

UpdateFailed(M, id, message) ==
  [M EXCEPT !.status[id] = "failed",
            !.updated = [NoUpdate EXCEPT !.id = id, !.status = "failed",
                           !.error = message]]

\* ---------------------------------------------------------- startStream
\* startStream with the session registered before the command is built.
startStreamCallRegistersFirst(M, streamId, platforms, throws, caller, rest) ==
  LET command == createFFmpegCommand(VideoPath(streamId), platforms)
      handle == Len(M.procs) + 1
      set == [M EXCEPT !.activeStreams = MapSet(@, streamId, handle)]
      spawned == [set EXCEPT
        !.procs = Append(@, [id |-> streamId, alive |-> TRUE, killed |-> FALSE,
                             onExit |-> FALSE])]
  IN  IF command.threw \/ throws
        THEN Issue(set, Query("catch", streamId, 0,
                              IF command.threw THEN NoValidOutputs ELSE SpawnError,
                              caller, rest))
        ELSE Issue(spawned, Query("active", streamId, handle,
                                  generateLogFilename(streamId), caller, rest))

\* Lines 76-107: up to the await of the 'active' update.  throws: spawn
\* raises.  On a closed client the update rejects, the catch block's own
\* update rejects too, and startStream rejects.
startStreamCall(M, streamId, platforms, throws, caller, rest) ==
  LET command == createFFmpegCommand(VideoPath(streamId), platforms)
      handle == Len(M.procs) + 1
      logFilename == generateLogFilename(streamId)
      spawned == [M EXCEPT
        !.procs = Append(@, [id |-> streamId, alive |-> TRUE, killed |-> FALSE,
                             onExit |-> FALSE]),
        !.activeStreams = MapSet(@, streamId, handle)]
  IN  IF command.threw \/ throws
        THEN IF PgOpen(M)
               THEN Issue(M, Query("catch", streamId, 0,
                                   IF command.threw THEN NoValidOutputs ELSE SpawnError,
                                   caller, rest))
               ELSE Return(M, "startStream", streamId, "rejected", caller)
        ELSE IF PgOpen(M)
               THEN Issue(spawned, Query("active", streamId, handle, logFilename,
                                         caller, rest))
               ELSE Return(spawned, "startStream", streamId, "rejected", caller)

\* Line 110 on: the 'active' update is applied, the exit listener attached.
startStreamResume(M, q) ==
  LET W == UpdateActive(M, q.id, q.arg)
      H == [W EXCEPT !.procs[q.process].onExit = TRUE]
  IN  Return(H, "startStream", q.id, "true", q.caller)

\* Lines 132-137: the catch block's update is applied.
startStreamCatch(M, q) ==
  Return(UpdateFailed(M, q.id, q.arg), "startStream", q.id, "false", q.caller)

\* Lines 110-121: the exit listener up to its await.
onExitCall(M, p, code) ==
  IF PgOpen(M)
    THEN Issue(M, Query("exit", M.procs[p].id, p,
                        IF code = 0 THEN "completed" ELSE "failed",
                        "event", <<>>))
    ELSE M

\* Lines 118-124: the listener's update is applied, the entry deleted.
onExitResume(M, q) == DeleteStream(UpdateEnded(M, q.id, q.arg), q.id)

\* ----------------------------------------------------------- stopStream
\* stopStream without the activeStreams.has guard.
stopStreamCallUnguarded(M, streamId, caller) ==
  LET p == IF MapHas(M.activeStreams, streamId)
             THEN MapGet(M.activeStreams, streamId) ELSE 0
  IN  Issue(IF p # 0 THEN Kill(M, p) ELSE M,
            Query("stop", streamId, p, NoText, caller, <<>>))

\* Lines 143-156: up to the await of the 'stopped' update, or line 162.
stopStreamCall(M, streamId, caller) ==
  IF MapHas(M.activeStreams, streamId)
    THEN LET p == MapGet(M.activeStreams, streamId)
         IN  IF PgOpen(M)
               THEN Issue(Kill(M, p), Query("stop", streamId, p, NoText, caller, <<>>))
               ELSE Return(Kill(M, p), "stopStream", streamId, "rejected", caller)
    ELSE Return(M, "stopStream", streamId, "false", caller)

\* stopStream without the activeStreams.delete of line 158.
stopStreamResumeKeeps(M, q) ==
  Return(UpdateEnded(M, q.id, "stopped"), "stopStream", q.id, "true", q.caller)

\* Lines 153-159: the 'stopped' update is applied, the entry deleted.
stopStreamResume(M, q) ==
  Return(DeleteStream(UpdateEnded(M, q.id, "stopped"), q.id),
         "stopStream", q.id, "true", q.caller)

\* ------------------------------------------------ processScheduledStreams
\* The loop without the fs.existsSync check of line 191.
TickLoopUnchecked(M, rows, throws) ==
  IF rows = <<>> THEN M
  ELSE startStreamCall(M, Head(rows).id, Head(rows).platforms, throws,
                       "tick", Tail(rows))

\* The for loop of lines 185-204 from its next row to the next await.
TickLoop(M, rows, throws) ==
  IF rows = <<>> THEN M
  ELSE LET stream == Head(rows) IN
       IF stream.id \notin files
         THEN Issue(M, Query("missing", stream.id, 0, FileNotFound, "tick", Tail(rows)))
         ELSE startStreamCall(M, stream.id, stream.platforms, throws,
                              "tick", Tail(rows))

\* The WHERE clause without scheduled_at <= now and plan_active.
SelectedAnyTime(st) == {j \in Jobs : st[j] = "scheduled"}

\* The WHERE clause of lines 178-180.
Selected(st) == {j \in Jobs : st[j] = "scheduled" /\ j \in due}

\* The rows the SELECT of lines 172-182 can return: the selected jobs in any
\* order, each with the platforms joined to it.
RowOrders(S) ==
  { s \in [1..Cardinality(S) -> S] : \A i, j \in 1..Cardinality(S) : i # j => s[i] # s[j] }

\* ------------------------------------------------------- SIGTERM handler
\* The loop of lines 238-240 from its next entry to the next await, then
\* pgClient.end(): the queries still in flight are dropped with the socket.
ShutdownLoop(M) ==
  IF M.iter < Len(M.activeStreams)
    THEN stopStreamCall([M EXCEPT !.iter = @ + 1],
                        M.activeStreams[M.iter + 1].key, "shutdown")
    ELSE [M EXCEPT !.shutdown = "ending", !.pgQueue = <<>>]

\* ------------------------------------------------------------ the answers
\* What the function awaiting query q does once the query is answered.
Resume(M, q, rows, throws) ==
  CASE q.kind = "select" -> TickLoop(M, rows, throws)
    [] q.kind = "missing" -> TickLoop(UpdateFailed(M, q.id, q.arg), q.rest, throws)
    [] q.kind = "active" ->
         IF q.caller = "tick"
           THEN TickLoop(startStreamResume(M, q), q.rest, throws)
           ELSE startStreamResume(M, q)
    [] q.kind = "catch" ->
         IF q.caller = "tick"
           THEN TickLoop(startStreamCatch(M, q), q.rest, throws)
           ELSE startStreamCatch(M, q)
    [] q.kind = "exit" -> onExitResume(M, q)
    [] q.kind = "stop" ->
         IF q.caller = "shutdown"
           THEN ShutdownLoop(stopStreamResume(M, q))
           ELSE stopStreamResume(M, q)

\* A rejected promise nobody handles: the subscriber callbacks, the exit
\* listener and the SIGTERM handler are async functions whose promise is
\* dropped by their caller, and Node (18 or later) ends the process on an
\* unhandled rejection.
Crash(M) == [M EXCEPT !.shutdown = "crashed", !.pgQueue = <<>>]

\* What the function awaiting query q does once the query is rejected:
\* processScheduledStreams leaves its loop for its catch block (line 205),
\* startStream enters its catch block (line 128) or, from there, rejects
\* to its caller; the exit listener and stopStream reject.
Reject(M, q) ==
  CASE q.kind = "select" -> M
    [] q.kind = "missing" -> M
    [] q.kind = "active" ->
         Issue(M, Query("catch", q.id, q.process, DbError, q.caller, q.rest))
    [] q.kind = "catch" ->
         IF q.caller = "tick"
           THEN Return(M, "startStream", q.id, "rejected", q.caller)
           ELSE Crash(Return(M, "startStream", q.id, "rejected", q.caller))
    [] q.kind = "exit" -> Crash(M)
    [] q.kind = "stop" ->
         Crash(Return(M, "stopStream", q.id, "rejected", q.caller))

\* ---------------------------------------------------------------- actions
Up == shutdown \notin {"exited", "crashed"}

\* A handler that may suspend at an await is run while fewer than
\* MaxInFlight functions are suspended.
Room == Len(pgQueue) < MaxInFlight

\* A 'stream:start' message (lines 220-224).  throws: spawn raises, which
\* it can only do when the command was built.
SubStart(id, platforms, throws) ==
  /\ Up /\ Room
  /\ Len(procs) < MaxProcs
  /\ Commit(startStreamCall(Cur, id, platforms, throws, "sub", <<>>),
            Event("stream:start", id, platforms, throws))

\* A 'stream:stop' message (lines 226-230).  Taken while pgClient is open.
SubStop(id) ==
  /\ Up /\ Room /\ PgOpen(Cur)
  /\ Commit(stopStreamCall(Cur, id, "sub"), Event("stream:stop", id, <<>>, FALSE))

\* The cron job fires (line 215): processScheduledStreams up to its SELECT.
\* Taken while pgClient is open.
CronTick ==
  /\ Up /\ Room /\ PgOpen(Cur)
  /\ Commit(Issue(Cur, Query("select", "", 0, NoText, "tick", <<>>)),
            Event("tick", "", <<>>, FALSE))

\* A relay process ends with exit code `code`; Node emits 'exit' to the
\* listener if one is attached by then.
ProcExit(p, code) ==
  /\ Up
  /\ procs[p].alive
  /\ procs[p].onExit => Room
  /\ LET dead == [Cur EXCEPT !.procs[p].alive = FALSE]
     IN  Commit(IF procs[p].onExit THEN onExitCall(dead, p, code) ELSE dead,
                Event("exit", procs[p].id, <<>>, FALSE))

\* The oldest query is answered and the function awaiting it continues.
PgReply ==
  /\ Up
  /\ pgQueue # <<>>
  /\ LET q == Head(pgQueue)
         M == [Cur EXCEPT !.pgQueue = Tail(@)]
     IN  \E order \in (IF q.kind = "select" THEN RowOrders(Selected(status)) ELSE {<<>>}) :
         \E lists \in [1..Len(order) -> PlatformLists] :
         \E throws \in (IF order # <<>> \/ q.rest # <<>> THEN BOOLEAN ELSE {FALSE}) :
           LET rows == [i \in 1..Len(order) |->
                          [id |-> order[i], platforms |-> lists[i]]]
               N == Resume(M, q, rows, throws)
           IN  /\ Len(N.procs) <= MaxProcs
               /\ Commit(N, Event("reply", q.id, <<>>, FALSE))

\* The oldest query is rejected by the store and the function awaiting it
\* continues in its error path.
PgReject ==
  /\ Up
  /\ pgQueue # <<>>
  /\ LET q == Head(pgQueue)
         M == [Cur EXCEPT !.pgQueue = Tail(@)]
     IN  Commit(Reject(M, q), Event("reject", q.id, <<>>, FALSE))

\* SIGTERM (lines 234-240).
Sigterm ==
  /\ shutdown = "running"
  /\ activeStreams # <<>> => Room
  /\ Commit(ShutdownLoop([Cur EXCEPT
              !.shutdown = "draining", !.iter = 0,
              !.drain = {activeStreams[i].key : i \in 1..Len(activeStreams)}]),
            Event("SIGTERM", "", <<>>, FALSE))

\* pgClient.end() resolves, redisClient.quit() is issued (lines 243-244).
EndDone ==
  /\ shutdown = "ending"
  /\ Commit([Cur EXCEPT !.shutdown = "quitting"], Event("end", "", <<>>, FALSE))

\* redisClient.quit() resolves, process.exit(0) (line 246).
QuitDone ==
  /\ shutdown = "quitting"
  /\ Commit([Cur EXCEPT !.shutdown = "exited"], Event("quit", "", <<>>, FALSE))

\* ----------------------------------------------------------- specification
\* The worlds the worker is started in, as <<files, due>>: job a is due
\* and has its file; job b is due without its file, or has it and is not due.
Worlds == { <<{"a"}, Jobs>>, <<Jobs, {"a"}>> }

Init ==
  /\ activeStreams = <<>>
  /\ procs = <<>>
  /\ status = [j \in Jobs |-> "scheduled"]
  /\ pgQueue = <<>>
  /\ updated = NoUpdate
  /\ returned = NoReturn
  /\ signalled = 0
  /\ \E w \in Worlds : files = w[1] /\ due = w[2]
  /\ shutdown = "running"
  /\ iter = 0
  /\ drain = {}
  /\ event = Event("", "", <<>>, FALSE)
  /\ build = NoBuild

Next ==
  \/ \E id \in Jobs, platforms \in PlatformLists :
       \E throws \in (IF Outputs(platforms) # <<>> THEN BOOLEAN ELSE {FALSE}) :
         SubStart(id, platforms, throws)
  \/ \E id \in Jobs : SubStop(id)
  \/ CronTick
  \/ \E p \in 1..Len(procs), code \in {0, 1} : ProcExit(p, code)
  \/ PgReply

Spec == Init /\ [][Next]_vars

NextShutdown == Next \/ Sigterm \/ EndDone \/ QuitDone

SpecShutdown == Init /\ [][NextShutdown]_vars

\* The worker with a store that may reject any query.
NextFaults == Next \/ PgReject

SpecFaults == Init /\ [][NextFaults]_vars

\* createFFmpegCommand on its own: every platform list of up to MaxLen
\* platforms, built MaxCalls times.
Platforms == {Rtmp, Custom, CustomNoUrl, Hls}

BuilderInputs == UNION { [1..n -> Platforms] : n \in 0..MaxLen }

InitBuilder ==
  /\ activeStreams = <<>>
  /\ procs = <<>>
  /\ status = [j \in Jobs |-> "scheduled"]
  /\ pgQueue = <<>>
  /\ updated = NoUpdate
  /\ returned = NoReturn
  /\ signalled = 0
  /\ files = Jobs
  /\ due = Jobs
  /\ shutdown = "running"
  /\ iter = 0
  /\ drain = {}
  /\ event = Event("", "", <<>>, FALSE)
  /\ \E id \in Jobs, platforms \in BuilderInputs :
       build = [NoBuild EXCEPT !.videoPath = VideoPath(id), !.platforms = platforms]

Build ==
  /\ build.calls < MaxCalls
  /\ build' = [build EXCEPT
                 !.command = createFFmpegCommand(build.videoPath, build.platforms),
                 !.calls = @ + 1]
  /\ UNCHANGED <<activeStreams, procs, status, pgQueue, updated, returned,
                 signalled, files, due, shutdown, iter, drain, event>>

SpecBuilder == InitBuilder /\ [][Build]_vars

\* ------------------------------------------------- reading a step's effects
Terminal == {"completed", "failed", "stopped"}

Handles(ps, id) == {p \in 1..Len(ps) : ps[p].id = id}
LiveHandles(ps, id) == {p \in Handles(ps, id) : ps[p].alive}

\* The activeStreams entry of id: its handle, or 0 when there is none.
Entry(m, id) == IF MapHas(m, id) THEN MapGet(m, id) ELSE 0

\* The step issues a query (one step issues at most one, at the end of pgQueue).
IssuesQuery ==
  /\ pgQueue' # <<>>
  /\ \/ Len(pgQueue') > Len(pgQueue)
     \/ event'.h \in {"reply", "reject"} /\ Len(pgQueue') = Len(pgQueue)

Issued == pgQueue'[Len(pgQueue')]

Issues(kind) == IssuesQuery /\ Issued.kind = kind

\* The step is the answer to a query of this kind; Answered is that query.
Answers(kind) == event'.h = "reply" /\ Head(pgQueue).kind = kind

Answered == Head(pgQueue)

\* The step is the rejection of a query of this kind (Answered is the query).
Rejects(kind) == event'.h = "reject" /\ Head(pgQueue).kind = kind

\* The step handles a 'stream:start' / 'stream:stop' message; event'.id is
\* the job it names.
Starts == event'.h = "stream:start"
Stops == event'.h = "stream:stop"

\* The platform lists of a start request for which the command cannot be built.
InvalidLists == {pl \in PlatformLists : Outputs(pl) = <<>>}

\* The step neither spawns a process for id nor touches its entry.
LeavesSessionOf(id) ==
  /\ Handles(procs', id) = Handles(procs, id)
  /\ Entry(activeStreams', id) = Entry(activeStreams, id)

NamesPath(text, path) == \E i \in 1..Len(text) : text[i] = path

\* ------------------------------------------------------------------ claims

\* C1: in every reachable state each job id has at most one live relay
\* process, whatever the interleaving of 'stream:start' messages and ticks.
AtMostOneLiveProcess ==
  \A id \in Jobs : Cardinality(LiveHandles(procs, id)) <= 1

\* C2: a start requested for a job that already has an ActiveSession (the
\* second of two starts in rapid succession) spawns no process.
DuplicateStartSpawnsNothing ==
  [][\A id \in Jobs :
       MapHas(activeStreams, id) => Handles(procs', id) = Handles(procs, id)]_vars

\* C3: a stop request for a job without an ActiveSession returns "not
\* running" (false), sends no signal, issues and applies no update, and
\* leaves the registry, the processes and every persisted status unchanged.
StopNotRunningIsNoOp ==
  [][(Stops /\ ~MapHas(activeStreams, event'.id)) =>
       /\ returned' = [fn |-> "stopStream", id |-> event'.id, val |-> "false",
                       to |-> "sub"]
       /\ signalled' = 0
       /\ updated' = NoUpdate
       /\ pgQueue' = pgQueue
       /\ activeStreams' = activeStreams
       /\ procs' = procs
       /\ status' = status]_vars

StopNotRunningSeen ==
  /\ returned.fn = "stopStream" /\ returned.val = "false"
  /\ \E id \in Jobs : id # returned.id /\ MapHas(activeStreams, id)

\* C4: a job persisted as 'stopped' is not rewritten to another status by
\* the exit reaction of the process that was stopped.
StoppedSurvivesExitReaction ==
  [][( /\ Answers("exit")
       /\ status[Answered.id] = "stopped"
       /\ procs[Answered.process].killed )
     => status'[Answered.id] = "stopped"]_vars

\* C5: when the engine has exited after a SIGTERM that found sessions
\* registered, no session is registered and no relay process it spawned is
\* running without having been stopped.
ExitLeavesNothingRunning ==
  (shutdown = "exited" /\ drain # {}) =>
    /\ activeStreams = <<>>
    /\ \A p \in 1..Len(procs) : procs[p].alive => procs[p].killed

\* C6: when building the command or spawning raises, startStream issues the
\* 'failed' update with the error text without spawning or registering
\* anything for the job; when that update is applied the status is 'failed'
\* with that text, startStream returns false, and the job's entry is as it
\* was before the call.
StartFailureIsPersisted ==
  [][/\ (Starts /\ (event'.platforms \in InvalidLists \/ event'.throws)) =>
          /\ Issues("catch")
          /\ Issued.id = event'.id
     /\ Issues("catch") =>
          /\ Issued.arg \in {NoValidOutputs, SpawnError}
          /\ LeavesSessionOf(Issued.id)
     /\ Answers("catch") =>
          /\ status'[Answered.id] = "failed"
          /\ updated' = [NoUpdate EXCEPT !.id = Answered.id, !.status = "failed",
                                         !.error = Answered.arg]
          /\ returned' = [fn |-> "startStream", id |-> Answered.id,
                          val |-> "false", to |-> Answered.caller]
          /\ LeavesSessionOf(Answered.id)]_vars

StartFailureSeen ==
  /\ returned.fn = "startStream" /\ returned.val = "false"
  /\ updated.error = NoValidOutputs
  /\ status[returned.id] = "failed"
  /\ ~MapHas(activeStreams, returned.id)
  /\ Handles(procs, returned.id) = {}

\* C7: no session stays registered for a process that has exited: once
\* nothing is in flight, every registered session's process is running.
ExitedProcessIsUnregistered ==
  pgQueue = <<>> =>
    \A i \in 1..Len(activeStreams) : procs[activeStreams[i].process].alive

\* C8 (as amended): on a tick, a selected job whose file is missing gets the
\* 'failed' update with the fixed text 'Video file not found', and neither
\* the step that finds the file missing nor the one that applies the update
\* spawns or registers anything for the job; the tick starts a process only
\* for a job whose file exists.
MissingFileFailsBeforeStart ==
  [][/\ Issues("missing") =>
          /\ Issued.id \notin files
          /\ Issued.arg = FileNotFound
          /\ LeavesSessionOf(Issued.id)
     /\ Answers("missing") =>
          /\ status'[Answered.id] = "failed"
          /\ updated' = [NoUpdate EXCEPT !.id = Answered.id, !.status = "failed",
                                         !.error = FileNotFound]
          /\ LeavesSessionOf(Answered.id)
     /\ (IssuesQuery /\ Issued.kind \in {"active", "catch"}
           /\ Issued.caller = "tick") =>
          Issued.id \in files]_vars

MissingFileSeen ==
  /\ updated.error = FileNotFound
  /\ status[updated.id] = "failed"
  /\ updated.id \notin files
  /\ Handles(procs, updated.id) = {}
  /\ ~MapHas(activeStreams, updated.id)

\* C8 (as claimed): the error text persisted for a missing source file
\* identifies the missing path.
MissingFileErrorNamesPath ==
  (updated.status = "failed" /\ updated.id \notin files
     /\ updated.error \notin {NoValidOutputs, SpawnError})
    => NamesPath(updated.error, VideoPath(updated.id))

\* C9: the tick's SELECT returns every job that is 'scheduled' and due, the
\* first of them is dispatched at once; a dispatched job whose file exists
\* (command built, process spawned) has a registered session on a running
\* process and an 'active' update in flight with its log path; when that
\* update is applied the status is 'active' with the log path populated.
DueJobBecomesActive ==
  [][/\ (Answers("select")
           /\ {j \in Jobs : status[j] = "scheduled" /\ j \in due} # {}) =>
          /\ IssuesQuery
          /\ Issued.caller = "tick"
          /\ {Issued.id} \cup {Issued.rest[i].id : i \in 1..Len(Issued.rest)}
               = {j \in Jobs : status[j] = "scheduled" /\ j \in due}
     /\ (Issues("active") /\ Issued.caller = "tick") =>
          /\ Issued.id \in files
          /\ Entry(activeStreams', Issued.id) = Issued.process
          /\ Issued.process \notin Handles(procs, Issued.id)
          /\ procs'[Issued.process].alive
          /\ Issued.arg = generateLogFilename(Issued.id)
     /\ (Answers("active") /\ Answered.caller = "tick") =>
          /\ status'[Answered.id] = "active"
          /\ updated'.id = Answered.id
          /\ updated'.log_file # NoText
          /\ updated'.started_at
          /\ returned' = [fn |-> "startStream", id |-> Answered.id,
                          val |-> "true", to |-> "tick"]]_vars

DueJobActiveSeen ==
  /\ returned = [fn |-> "startStream", id |-> updated.id, val |-> "true", to |-> "tick"]
  /\ status[updated.id] = "active"
  /\ updated.log_file # NoText
  /\ MapHas(activeStreams, updated.id)
  /\ procs[MapGet(activeStreams, updated.id)].alive

\* C10: stop on a job with a session calls kill once, on the session's
\* process, and issues the 'stopped' update; when it is applied the status is
\* 'stopped', the entry is gone and stop returns true; a second stop right
\* after that returns false, signals nothing, writes nothing, and leaves
\* registry and statuses as the first call left them.
StopTwiceIsStopOnce ==
  [][/\ (Stops /\ MapHas(activeStreams, event'.id)) =>
          /\ signalled' = MapGet(activeStreams, event'.id)
          /\ Issues("stop")
          /\ Issued.id = event'.id
          /\ Len(pgQueue') = Len(pgQueue) + 1
     /\ Answers("stop") =>
          /\ status'[Answered.id] = "stopped"
          /\ updated' = [NoUpdate EXCEPT !.id = Answered.id, !.status = "stopped",
                                         !.ended_at = TRUE]
          /\ ~MapHas(activeStreams', Answered.id)
          /\ returned' = [fn |-> "stopStream", id |-> Answered.id, val |-> "true",
                          to |-> Answered.caller]
     /\ (Stops /\ returned.fn = "stopStream" /\ returned.val = "true"
           /\ returned.id = event'.id) =>
          /\ returned'.val = "false"
          /\ signalled' = 0
          /\ updated' = NoUpdate
          /\ pgQueue' = pgQueue
          /\ activeStreams' = activeStreams
          /\ status' = status]_vars

SecondStopSeen ==
  /\ returned.fn = "stopStream" /\ returned.val = "false"
  /\ status[returned.id] = "stopped"
  /\ \E p \in Handles(procs, returned.id) : procs[p].killed
  /\ ~MapHas(activeStreams, returned.id)

\* The platforms of a list whose type the builder supports, and those of
\* them that carry a destination, in the order of the list.
RECURSIVE Supported(_)
Supported(platforms) ==
  IF platforms = <<>> THEN <<>>
  ELSE IF Head(platforms).type \in {"rtmp", "custom"}
    THEN <<Head(platforms)>> \o Supported(Tail(platforms))
    ELSE Supported(Tail(platforms))

RECURSIVE Resolvable(_)
Resolvable(platforms) ==
  IF platforms = <<>> THEN <<>>
  ELSE IF Head(platforms).type = "rtmp" \/ (Head(platforms).type = "custom"
                                             /\ Head(platforms).dest # "")
    THEN <<Head(platforms)>> \o Resolvable(Tail(platforms))
    ELSE Resolvable(Tail(platforms))

\* The command is the one the builder owes a list of remaining platforms:
\* none raises, one is a single output, more are a tee with one leg each,
\* in the order of the list.
BuiltFor(command, remaining) ==
  /\ command.threw <=> remaining = <<>>
  /\ Len(remaining) = 1 => command.format = "flv"
  /\ Len(remaining) >= 2 => command.format = "tee"
  /\ Len(command.legs) = Len(remaining)
  /\ \A i \in 1..Len(command.legs) : command.legs[i] = OutputOf(remaining[i])
  /\ command.input = build.videoPath

\* C11 (as amended): for every platform list the builder drops the platforms
\* of unsupported type and the custom platforms without a url, and builds
\* for the rest: none raises, one gives a single output, n >= 2 give one tee
\* with n legs in input order; a further call on the same input gives the
\* same result.
BuilderCountsResolvable ==
  [][ /\ build'.calls > 0 => BuiltFor(build'.command, Resolvable(build'.platforms))
      /\ build.calls > 0 => build'.command = build.command ]_vars

\* A list with a custom platform that has no url, built MaxCalls times into
\* a tee with a leg for each of the others.
BuilderFanOutSeen ==
  /\ build.calls = MaxCalls
  /\ \E i \in 1..Len(build.platforms) : build.platforms[i] = CustomNoUrl
  /\ build.command.format = "tee"
  /\ Len(build.command.legs) = Len(build.platforms) - 1

\* C11 (as claimed): the builder drops only the platforms of unsupported
\* type and builds for every platform that remains.
BuilderCountsSupported ==
  build.calls > 0 => BuiltFor(build.command, Supported(build.platforms))

\* C12: a step that ends the tick's handling of one job, by the answer to
\* that job's update or by its rejection, goes on to the next row of the
\* tick: it issues that row's 'failed' update (file missing or start
\* failed) or dispatches it, and carries the rows after it.
TickHandlesRemainingJobs ==
  [][( /\ event'.h \in {"reply", "reject"}
       /\ Answered.caller = "tick"
       /\ Answered.rest # <<>>
       /\ ~Rejects("active") )
     => /\ IssuesQuery
        /\ Issued.caller = "tick"
        /\ Issued.kind \in {"missing", "active", "catch"}
        /\ Issued.id = Head(Answered.rest).id
        /\ Issued.rest = Tail(Answered.rest)]_vars

\* A start or a stop of job id is suspended at its await in queue.
SuspendedFor(id, queue) ==
  \E i \in 1..Len(queue) :
    queue[i].id = id /\ queue[i].kind \in {"active", "catch", "stop"}

\* The step changes the registry entry or the persisted status of id.
Mutates(id) ==
  \/ Entry(activeStreams', id) # Entry(activeStreams, id)
  \/ status'[id] # status[id]

\* C13: a step of a start or of a stop of a job (the call up to its await,
\* or the continuation after it) changes the job's registry entry or status
\* only while no other start or stop of the same job is suspended at an await.
StartStopSerialized ==
  [][ /\ ((Starts \/ Stops) /\ Mutates(event'.id))
          => ~SuspendedFor(event'.id, pgQueue)
      /\ ((Answers("active") \/ Answers("catch") \/ Answers("stop"))
            /\ Mutates(Answered.id))
          => ~SuspendedFor(Answered.id, Tail(pgQueue)) ]_vars

\* The reaction to the exit of process p, or a stop of its session, is
\* suspended at its await in queue.
ReactionInFlight(p, queue) ==
  \E i \in 1..Len(queue) :
    queue[i].process = p /\ queue[i].kind \in {"exit", "stop"}

\* C14: when the exit reaction of a process and a stop of its session are
\* in flight together, the one answered first leaves no entry for that
\* session, and the removal of the one answered second changes nothing in
\* the registry: the exit reaction of a process whose stop has completed,
\* and a stop answered right after the exit reaction of its job.
RemovedExactlyOnce ==
  [][ /\ (Answers("exit") \/ Answers("stop")) =>
           (ReactionInFlight(Answered.process, Tail(pgQueue)) =>
              Entry(activeStreams', Answered.id) # Answered.process)
      /\ ( /\ Answers("exit")
           /\ procs[Answered.process].killed
           /\ ~ReactionInFlight(Answered.process, Tail(pgQueue)) )
         => activeStreams' = activeStreams
      /\ ( /\ Answers("stop")
           /\ event.h = "reply"
           /\ updated.id = Answered.id
           /\ updated.ended_at /\ updated.status # "stopped" )
         => activeStreams' = activeStreams ]_vars

\* C15: no failure met while handling a job, a rejected store write
\* included, escapes its handler as an unhandled rejection: the worker is
\* never ended by one, and goes on taking messages and ticks.
NoFaultEscapes == shutdown # "crashed"

\* C16: the exit reaction of a process and the completion of a stop remove
\* only the entry of their own session: when the job's entry is by then the
\* one of another process, they leave the registry as it is.
RemovesOwnEntryOnly ==
  [][( /\ Answers("exit") \/ Answers("stop")
       /\ Entry(activeStreams, Answered.id) \notin {0, Answered.process} )
     => activeStreams' = activeStreams]_vars

\* C17: when startStream returns false, a process the call had spawned
\* (the 'active' update was rejected after the spawn) is neither registered
\* nor running; when it returns true, the job has a registered session and
\* the process the call spawned has the exit listener attached.
StartResultMatchesRegistry ==
  [][ /\ ( /\ returned'.fn = "startStream" /\ returned'.val = "false"
           /\ Answered.process # 0 )
         => /\ Entry(activeStreams', Answered.id) # Answered.process
            /\ ~procs'[Answered.process].alive
      /\ (returned'.fn = "startStream" /\ returned'.val = "true")
         => /\ MapHas(activeStreams', Answered.id)
            /\ procs'[Answered.process].onExit ]_vars

\* A tick's startStream for job id is suspended at its await in queue: the
\* job has been dispatched and its status is still the one it was selected in.
TickStartInFlight(id, queue) ==
  \E i \in 1..Len(queue) :
    /\ queue[i].id = id /\ queue[i].caller = "tick"
    /\ queue[i].kind \in {"active", "catch"}

\* C18: a tick dispatches a job to startStream only while no startStream
\* that a tick dispatched for the same job is still waiting for the update
\* that takes the job out of 'scheduled'.
TickDispatchesOnce ==
  [][( /\ event'.h = "reply"
       /\ IssuesQuery
       /\ Issued.caller = "tick" /\ Issued.kind \in {"active", "catch"} )
     => ~TickStartInFlight(Issued.id, Tail(pgQueue))]_vars

\* A start, a stop or an exit reaction of job id is suspended at its await.
InFlightFor(id) ==
  \E i \in 1..Len(pgQueue) :
    pgQueue[i].id = id /\ pgQueue[i].kind \in {"active", "catch", "stop", "exit"}

\* C19: for a job with no start, stop or exit reaction in flight, the
\* persisted status is 'active' exactly when the registry holds a session
\* for the job whose process is running.
StatusAgreesWithRegistry ==
  \A id \in Jobs :
    ~InFlightFor(id) =>
      (status[id] = "active" <=>
         (MapHas(activeStreams, id) /\ procs[MapGet(activeStreams, id)].alive))

\* The jobs the step works on: the job of the message, of the exit or of the
\* answered query, and the job of the call it goes on to (the next row of a
\* tick).
StepJobs ==
  {event'.id} \cup (IF IssuesQuery THEN {Issued.id} ELSE {})

\* The step leaves the entry, the processes and the status of job id alone.
Untouched(id) ==
  /\ status'[id] = status[id]
  /\ Entry(activeStreams', id) = Entry(activeStreams, id)
  /\ \A p \in 1..Len(procs') :
       IF p <= Len(procs)
         THEN procs[p].id = id => procs'[p] = procs[p]
         ELSE procs'[p].id # id

\* C20: a step of a start, a stop or an exit reaction of one job leaves the
\* registry entry, the processes and the persisted status of every other
\* job unchanged.
OtherJobsUntouched ==
  [][ \/ activeStreams' = activeStreams /\ status' = status /\ procs' = procs
      \/ \A id \in Jobs \ StepJobs : Untouched(id) ]_vars

\* A stop of one job has completed while another job keeps its session,
\* its running process and its status 'active'.
OtherJobKeptSeen ==
  /\ returned.fn = "stopStream" /\ returned.val = "true"
  /\ \E id \in Jobs :
       /\ id # returned.id
       /\ status[id] = "active"
       /\ MapHas(activeStreams, id)
       /\ procs[MapGet(activeStreams, id)].alive
====
